---- MODULE Spec2Model ----
(***************************************************************************)
(* A model of the deployqb command line tool (src/index.js, src/lib/qb.js,  *)
(* src/lib/qbcliTemplate.js).  One behaviour is one invocation of the tool: *)
(* Init draws the persisted world the process finds (the qbcli.json         *)
(* manifest, the files on disk, the per-developer Configstore, the remote   *)
(* workspace, the environment variables), and the actions are the steps of  *)
(* run(): each synchronous command is one action, the deploy command is     *)
(* one action per await (the checks, each file read, each POST and its      *)
(* reply).  SpecPrompted is the init command of the older entry script      *)
(* src/unnamed/part_000, which prompts for its answers and stores the       *)
(* credentials in the keychain.  SpecTwice adds a second invocation that    *)
(* starts from the world a successful deploy has left.                      *)
(***************************************************************************)
EXTENDS Integers, Sequences, FiniteSets, TLC

VARIABLES
  manifest,             \* qbcli.json: {} when absent, {record} when present
  disk,                 \* filename -> what the filesystem holds under it
  store,                \* Configstore: repositoryId -> {} or {record}
  remote,               \* the remote workspace: pagename -> page body
  env,                  \* process.env
  pc,                   \* position of run(): start, loading, posting, done
  command,              \* the command of this invocation (args._)
  deploymentType,       \* getDeploymentType(args)
  prefix,               \* prefix resolved by deploy
  ri,                   \* loop index of getAllFileContents (0: not called)
  arrayOfFileContents,  \* the array getAllFileContents builds
  formattedFiles,       \* [prefixed name, contents] pairs of deploy
  indexFileName,        \* local indexFileName of deploy
  i,                    \* loop index of the deploy loop
  inflight,             \* indices of formattedFiles whose POST is pending
  results,              \* outcome of each completed POST, in order
  log,                  \* messages printed by this invocation
  io,                   \* file reads, POSTs, opened links, store/manifest writes
  outcome               \* running, returned, or threw (exception left run)

vars == <<manifest, disk, store, remote, env, pc, command, deploymentType,
          prefix, ri, arrayOfFileContents, formattedFiles, indexFileName, i,
          inflight, results, log, io, outcome>>

world == <<manifest, disk, store, remote, env>>
deployLocals == <<deploymentType, prefix, ri, arrayOfFileContents,
                  formattedFiles, indexFileName, i, inflight, results>>

-----------------------------------------------------------------------------
(* Bounds and value universes                                              *)

MaxFiles == 2

\* JavaScript's undefined, and how a template literal prints a value
undefined == "<undefined>"
Str(x) == IF x = undefined THEN "undefined" ELSE x
Truthy(x) == x # undefined /\ x # ""

FileNameOf(k) == <<"a.js", "b.html", "c.css", "d.txt">>[k]
IndexFlags == {"yes", "no"}
Missing == [kind |-> "missing", content |-> ""]
Folder == [kind |-> "folder", content |-> ""]
File(c) == [kind |-> "file", content |-> c]
FileStates == {Missing, Folder, File(""), File("1")}
RepoIds == {"r1", "r2"}
DeploymentTypes == {"dev", "prod", "feat"}

Some(x) == {x}
None == {}
The(s) == CHOOSE x \in s : TRUE

Error(m) == [level |-> "error", msg |-> m]
Success(m) == [level |-> "success", msg |-> m]
Warning(m) == [level |-> "warning", msg |-> m]
Plain(m) == [level |-> "log", msg |-> m]

-----------------------------------------------------------------------------
(* External collaborators                                                  *)

\* files.fileFolderExists: true for a file and for a folder
fileFolderExists(d, f) == f \in DOMAIN d /\ d[f].kind # "missing"

\* files.getFileContents resolves with the content of a file and rejects
\* for anything that is not a readable file
readRejects(d, f) == d[f].kind # "file"
getFileContents(d, f) == d[f].content

\* helpers.prefixGenerator: production -> prodPrefix, development ->
\* devPrefix, feature -> the per-developer feature prefix
prefixGenerator(p, type) ==
  IF type = "prod" THEN p.customPrefixProduction
  ELSE IF type = "dev" THEN p.customPrefix
  ELSE p.customPrefixFeature

\* an empty or unset resolved prefix is the MissingPrefix failure
MissingPrefix(p) == ~Truthy(p)

\* (a remote service that appends to a page that exists)
AppendDBPage(r, name, body) ==
  [n \in DOMAIN r \cup {name} |->
     IF n = name THEN (IF n \in DOMAIN r THEN r[n] \o body ELSE body) ELSE r[n]]

\* the remote service's API_AddReplaceDBPage: create or replace by name
AddReplaceDBPage(r, name, body) ==
  [n \in DOMAIN r \cup {name} |-> IF n = name THEN body ELSE r[n]]

-----------------------------------------------------------------------------
(* Pure parts of the program                                               *)

\* qbcliTemplate(): the manifest generated from the environment
qbcliTemplate(e) ==
  [urlQueryString |-> "",
   repositoryId |-> e.REPOSITORY_ID,
   prodPrefix |-> e.CUSTOM_PREFIX_PRODUCTION,
   devPrefix |-> e.CUSTOM_PREFIX,
   dbid |-> e.DBID,
   devDbid |-> IF e.DEV_AND_PROD_QUICKBASE_APPLICATIONS = "yes"
               THEN e.DEV_DBID ELSE "",
   devAndProdQuickBaseApplications |-> e.DEV_AND_PROD_QUICKBASE_APPLICATIONS,
   realm |-> e.REALM,
   filesConf |-> <<[filename |-> "exampleFileName.js", isIndexFile |-> undefined],
                   [filename |-> "example.html", isIndexFile |-> "false"]>>]

\* getConfiguration: configurationFile.get(repositoryId)
getConfiguration(s, repositoryId) ==
  IF repositoryId \in DOMAIN s THEN s[repositoryId] ELSE None

\* saveFeaturePrefix: configurationFile.set(repositoryId, {customPrefixFeature})
saveFeaturePrefix(s, repositoryId, customPrefixFeature) ==
  [r \in DOMAIN s \cup {repositoryId} |->
     IF r = repositoryId
     THEN Some([customPrefixFeature |-> customPrefixFeature,
                launchFeatPageId |-> undefined])
     ELSE s[r]]

\* (a variant of init that starts every manifest afresh)
InitDataFresh(template, prior) == template

\* the manifest init writes: the template, with the query string and the
\* file list of the manifest already there, if any
InitData(template, prior) ==
  IF prior # None
  THEN [template EXCEPT !.urlQueryString = The(prior).urlQueryString,
                        !.filesConf = The(prior).filesConf]
  ELSE template

\* the entry getAllFileContents pushes for a file it has read
PreparedEntry(fileConf, fileContents) ==
  <<fileConf.filename, fileContents, fileConf.isIndexFile = "yes">>

\* (a variant that forgets the prefix)
FormattedNameBare(p, fileName) == fileName

\* the page name deploy gives a prepared file
FormattedName(p, fileName) == Str(p) \o fileName

\* formattedFiles: arrayOfFileContents.map(...) of deploy
FormatFiles(p, arr) ==
  [k \in 1..Len(arr) |-> <<FormattedName(p, arr[k][1]), arr[k][2]>>]

\* indexFileName after the map: every index entry assigns it in turn
RECURSIVE IndexFileNameOf(_)
IndexFileNameOf(arr) ==
  IF arr = <<>> THEN undefined
  ELSE IF arr[Len(arr)][3] THEN arr[Len(arr)][1]
  ELSE IndexFileNameOf(SubSeq(arr, 1, Len(arr) - 1))

\* the empty batch check of deploy
\* (a variant without the check)
BatchNeverEmpty(arr) == FALSE

BatchIsEmpty(arr) == Len(arr) < 1

\* the await of getAllFileContents: run resumes when its loop has ended
\* (a variant that does not wait for the loop)
BatchMaterializedEarly(r, filesConf) == TRUE

BatchMaterialized(r, filesConf) == r > Len(filesConf)

\* the await of handleAPICalls in the deploy loop: the next iteration
\* starts when no call is pending
\* (a variant that does not await the call)
CallNotAwaited(pending) == TRUE

CallSettled(pending) == pending = {}

\* the catch block of handleAPICalls leaves the remote workspace alone
\* (a variant that removes the pages sent so far)
RemoteRolledBack(r, sent) == [n \in DOMAIN r \ sent |-> r[n]]

RemoteAfterFailure(r, sent) == r

\* (a variant of deploy that records the index page in the manifest)
ManifestWithLaunchPage(m, idx) ==
  {[f \in DOMAIN The(m) \cup {"launchPageId"} |->
      IF f = "launchPageId" THEN idx ELSE The(m)[f]]}

\* the manifest when the deploy loop has ended: deploy writes no file
ManifestAfterDeploy(m, idx) == m

\* (a variant of deploy that records the index page in the developer's
\* record)
StoreWithLaunchPage(s, repositoryId, idx) ==
  [s EXCEPT ![repositoryId] = {[The(@) EXCEPT !.launchFeatPageId = idx]}]

\* the per-developer store when the deploy loop has ended: deploy makes no
\* configurationFile.set call
StoreAfterDeploy(s, repositoryId, idx) == s

\* an element of the request document
Element(tag, text) == [tag |-> tag, text |-> text]

\* (a variant that sends the apptoken element always)
apptokenStringAlways(apptoken) == <<Element("apptoken", Str(apptoken))>>

\* apptokenString of addUpdateDbPage: the element, if an apptoken is given
apptokenString(apptoken) ==
  IF Truthy(apptoken) THEN <<Element("apptoken", Str(apptoken))>> ELSE <<>>

\* the qdbapi document addUpdateDbPage sends
RequestData(pagename, pagebody, usertoken, apptoken) ==
  <<Element("pagename", Str(pagename)),
    Element("pagetype", "1"),
    Element("pagebody", Str(pagebody)),
    Element("usertoken", Str(usertoken))>> \o apptokenString(apptoken)

\* launchDbid of getLaunchParameters: the application launch opens
launchDbid(m, type) ==
  IF type = "prod" THEN m.dbid
  ELSE IF m.devAndProdQuickBaseApplications = "yes" THEN m.devDbid
  ELSE m.dbid

\* the URL of the POST of qb.addUpdateDbPage
PostUrl(realm, dbid) == Str(realm) \o "/db/" \o Str(dbid)

\* generateLink
generateLink(pageId, realm, customPrefix, customPrefixProduction, devAndProd, customPrefixFeature) ==
  LET p == IF Truthy(devAndProd)
           THEN customPrefix ELSE customPrefixProduction
  IN Str(realm) \o "/db/main?a=dbpage&pageID=" \o Str(pageId)
       \o "&namespace=" \o Str(p)
       \o (IF Truthy(customPrefixFeature)
           THEN "-" \o customPrefixFeature ELSE "")

-----------------------------------------------------------------------------
(* The initial state: the world one invocation finds                       *)

ManifestOf(files, dev, prod) ==
  [urlQueryString |-> "",
   repositoryId |-> "r1",
   prodPrefix |-> prod,
   devPrefix |-> dev,
   dbid |-> "abc123",
   devDbid |-> "",
   devAndProdQuickBaseApplications |-> "no",
   realm |-> "acme",
   filesConf |-> files]

FilesConfs ==
  UNION {[1..n -> IndexFlags] : n \in 0..MaxFiles}

EntriesOf(flags) ==
  [k \in 1..Len(flags) |-> [filename |-> FileNameOf(k), isIndexFile |-> flags[k]]]

\* which prefix, if any, is empty or unset
PrefixSetups ==
  {[dev |-> "D", prod |-> "P", feat |-> "F"],
   [dev |-> "", prod |-> "P", feat |-> "F"],
   [dev |-> "D", prod |-> undefined, feat |-> "F"],
   [dev |-> "D", prod |-> "P", feat |-> ""]}

\* REPOSITORY_ID of the environment, and whether the store has a record
\* under it when it differs from the manifest's repositoryId
EnvSetups ==
  {[repo |-> "r1", other |-> FALSE],
   [repo |-> "r2", other |-> FALSE],
   [repo |-> "r2", other |-> TRUE]}

EnvOf(repo) ==
  [REPOSITORY_ID |-> repo,
   CUSTOM_PREFIX |-> undefined,
   CUSTOM_PREFIX_PROD |-> undefined,
   CUSTOM_PREFIX_PRODUCTION |-> undefined,
   CUSTOM_PREFIX_FEATURE |-> undefined,
   DBID |-> "abc123",
   DEV_DBID |-> undefined,
   DEV_AND_PROD_QUICKBASE_APPLICATIONS |-> "no",
   REALM |-> "acme",
   QB_REALM |-> undefined,
   LAUNCH_DEV_PAGE_ID |-> undefined,
   LAUNCH_PROD_PAGE_ID |-> undefined,
   LAUNCH_FEAT_PAGE_ID |-> undefined,
   USERTOKEN |-> "ut",
   APP_TOKEN |-> undefined]

DeveloperRecord(feat) ==
  [customPrefixFeature |-> feat, launchFeatPageId |-> undefined]

InitLocals ==
  /\ pc = "start"
  /\ command = "none"
  /\ deploymentType = undefined
  /\ prefix = undefined
  /\ ri = 0
  /\ arrayOfFileContents = <<>>
  /\ formattedFiles = <<>>
  /\ indexFileName = undefined
  /\ i = 0
  /\ inflight = {}
  /\ results = <<>>
  /\ log = <<>>
  /\ io = <<>>
  /\ outcome = "running"

\* worlds that vary the file list, the disk and the prefixes
DeployWorlds ==
  \E flags \in FilesConfs, ps \in PrefixSetups, es \in EnvSetups,
     hasManifest \in BOOLEAN, hasRecord \in BOOLEAN :
    /\ manifest = IF hasManifest
                  THEN Some(ManifestOf(EntriesOf(flags), ps.dev, ps.prod))
                  ELSE None
    /\ disk \in [{FileNameOf(k) : k \in 1..Len(flags)} -> FileStates]
    /\ store = [r \in RepoIds |->
                  IF r = "r1"
                  THEN (IF hasRecord THEN Some(DeveloperRecord(ps.feat)) ELSE None)
                  ELSE (IF es.other THEN Some(DeveloperRecord("F")) ELSE None)]
    /\ env = EnvOf(es.repo)

\* which prefix variables the environment sets
PrefixVariables ==
  {[dev |-> undefined, prod |-> undefined, production |-> undefined, feat |-> undefined],
   [dev |-> "X", prod |-> "Y", production |-> undefined, feat |-> "Z"],
   [dev |-> "X", prod |-> undefined, production |-> "Y", feat |-> "Z"]}

AppTokens == {undefined, "", "at"}

EnvWith(repo, pv, appToken) ==
  [EnvOf(repo) EXCEPT !.CUSTOM_PREFIX = pv.dev,
                      !.CUSTOM_PREFIX_PROD = pv.prod,
                      !.CUSTOM_PREFIX_PRODUCTION = pv.production,
                      !.CUSTOM_PREFIX_FEATURE = pv.feat,
                      !.APP_TOKEN = appToken]

\* manifests as init writes them or as the user has edited them since
ConfigManifests ==
  {[m EXCEPT !.urlQueryString = q] :
     m \in {ManifestOf(EntriesOf(<<"yes">>), "D", "P"),
            [qbcliTemplate(EnvOf("r1")) EXCEPT !.devPrefix = "D", !.prodPrefix = "P"]},
     q \in {"", "x=1"}}

\* worlds that vary the environment and the manifest's other fields
ConfigWorlds ==
  \E repo \in RepoIds, pv \in PrefixVariables, appToken \in AppTokens :
    /\ manifest \in {None} \cup {Some(m) : m \in ConfigManifests}
    /\ disk = [f \in {FileNameOf(1)} |-> File("1")]
    /\ store = [r \in RepoIds |->
                  IF r = "r1" THEN Some(DeveloperRecord("F")) ELSE None]
    /\ env = EnvWith(repo, pv, appToken)

\* the launch page ids and the realm the environment gives generate-links
LinkSetups ==
  {[dev |-> undefined, prod |-> undefined, feat |-> undefined, realm |-> undefined],
   [dev |-> "7", prod |-> "8", feat |-> "9", realm |-> "acme"]}

EnvForLinks(repo, ls, dp) ==
  [EnvWith(repo, [dev |-> "X", prod |-> undefined, production |-> "Y", feat |-> "Z"],
           undefined)
     EXCEPT !.LAUNCH_DEV_PAGE_ID = ls.dev,
            !.LAUNCH_PROD_PAGE_ID = ls.prod,
            !.LAUNCH_FEAT_PAGE_ID = ls.feat,
            !.QB_REALM = ls.realm,
            !.DEV_AND_PROD_QUICKBASE_APPLICATIONS = dp,
            !.DEV_DBID = IF dp = "yes" THEN "dev456" ELSE undefined]

\* manifests with one or two target applications
LinkManifests ==
  {[ManifestOf(EntriesOf(<<"yes">>), "D", "P")
      EXCEPT !.urlQueryString = q,
             !.devAndProdQuickBaseApplications = dp,
             !.devDbid = IF dp = "yes" THEN "dev456" ELSE ""] :
     q \in {"", "x=1"}, dp \in {"no", "yes"}}

\* worlds that vary the targets, the launch pages and the records of the
\* per-developer store
LinkWorlds ==
  \E repo \in RepoIds, ls \in LinkSetups, m \in LinkManifests,
     page \in {undefined, "9"} :
    /\ manifest = Some(m)
    /\ disk = [f \in {FileNameOf(1)} |-> File("1")]
    /\ store = [r \in RepoIds |->
                  IF r = "r1"
                  THEN Some([customPrefixFeature |-> "F", launchFeatPageId |-> page])
                  ELSE Some([customPrefixFeature |-> "H", launchFeatPageId |-> "5"])]
    /\ env = EnvForLinks(repo, ls, m.devAndProdQuickBaseApplications)

Init ==
  /\ DeployWorlds \/ ConfigWorlds \/ LinkWorlds
  /\ remote = <<>>
  /\ InitLocals

-----------------------------------------------------------------------------
(* State read at the top of run()                                          *)

qbCliJsonExists == manifest # None
existingQbCliConfigs == The(manifest)

Say(m) == log' = Append(log, m)
Event(op, a, b, u) == [op |-> op, name |-> a, body |-> b, url |-> u, data |-> <<>>]
Do(op, a, b, u) == io' = Append(io, Event(op, a, b, u))

Return == pc' = "done" /\ outcome' = "returned"
Throw(e) == pc' = "done" /\ outcome' = e

-----------------------------------------------------------------------------
(* deploy: deployqb dev | prod | feat                                      *)

\* what the user may answer to the confirmation prompt
ConfirmationAnswers == {"yes", "no", "Yes", ""}

\* (a variant that takes every answer but "no" for a confirmation)
ConfirmedUnlessNo(answer) == answer # "no"

\* the deploy goes on only when the answer is 'yes'
Confirmed(answer) == answer = "yes"

\* the first argument of the prefixGenerator call, with the dev and
\* production prefixes exchanged
PrefixArgumentsExchanged(m, configs) ==
  [customPrefix |-> m.prodPrefix,
   customPrefixProduction |-> m.devPrefix,
   customPrefixFeature |-> configs.customPrefixFeature]

\* the first argument of the prefixGenerator call: the manifest's prefixes
\* and the developer's feature prefix
PrefixArguments(m, configs) ==
  [customPrefix |-> m.devPrefix,
   customPrefixProduction |-> m.prodPrefix,
   customPrefixFeature |-> configs.customPrefixFeature]

\* the prefix is resolved outside the try block: a failure of
\* prefixGenerator leaves run() as an exception
DeployResolve(type) ==
  LET configs == The(getConfiguration(store, existingQbCliConfigs.repositoryId))
      p == prefixGenerator(PrefixArguments(existingQbCliConfigs, configs), type)
  IN /\ prefix' = p
     /\ UNCHANGED log
     /\ IF MissingPrefix(p)
        THEN /\ Throw("MissingPrefix")
             /\ UNCHANGED ri
        ELSE /\ pc' = "loading"
             /\ ri' = 1
             /\ UNCHANGED outcome

\* run() from the command dispatch to the call of getAllFileContents
CmdDeploy(type) ==
  /\ pc = "start"
  /\ command' = "deploy"
  /\ deploymentType' = type
  /\ UNCHANGED <<world, arrayOfFileContents, formattedFiles, indexFileName,
                 i, inflight, results>>
  /\ IF ~qbCliJsonExists
     THEN /\ Say(Error("NotAtRoot"))
          /\ Return
          /\ UNCHANGED <<prefix, ri, io>>
     ELSE IF Len(existingQbCliConfigs.filesConf) < 1
     THEN /\ Say(Error("NoFilesListed"))
          /\ Return
          /\ UNCHANGED <<prefix, ri, io>>
     ELSE IF getConfiguration(store, existingQbCliConfigs.repositoryId) = None
     THEN /\ Say(Error("NoDeveloperRecord"))
          /\ Return
          /\ UNCHANGED <<prefix, ri, io>>
     ELSE IF type \in {"prod", "dev"}
     THEN \E answer \in ConfirmationAnswers :
            /\ Do("prompt", type, answer, "")
            /\ IF ~Confirmed(answer)
               THEN /\ Return
                    /\ UNCHANGED <<prefix, ri, log>>
               ELSE DeployResolve(type)
     ELSE /\ UNCHANGED io
          /\ DeployResolve(type)

\* getAllFileContents: one iteration of its loop.  An entry that does not
\* exist is passed over; a read that rejects is caught by the catch block
\* of deploy
LoadStep ==
  /\ pc \in {"loading", "posting"}
  /\ ri \in 1..Len(existingQbCliConfigs.filesConf)
  /\ LET fileConf == existingQbCliConfigs.filesConf[ri]
         fileName == fileConf.filename
     IN IF fileFolderExists(disk, fileName)
        THEN /\ Do("read", fileName, "", "")
             /\ IF readRejects(disk, fileName)
                THEN /\ Say(Error("LoadFailed"))
                     /\ Return
                     /\ UNCHANGED <<ri, arrayOfFileContents>>
                ELSE /\ arrayOfFileContents' =
                          Append(arrayOfFileContents,
                                 PreparedEntry(fileConf, getFileContents(disk, fileName)))
                     /\ ri' = ri + 1
                     /\ UNCHANGED <<pc, outcome, log>>
        ELSE /\ ri' = ri + 1
             /\ UNCHANGED <<pc, outcome, log, io, arrayOfFileContents>>
  /\ UNCHANGED <<world, command, deploymentType, prefix, formattedFiles,
                 indexFileName, i, inflight, results>>

\* run() resumes with the array: the empty batch check, then the map that
\* prefixes the names
LoadFinish ==
  /\ pc = "loading"
  /\ BatchMaterialized(ri, existingQbCliConfigs.filesConf)
  /\ IF BatchIsEmpty(arrayOfFileContents)
     THEN /\ Say(Error("EmptyBatch"))
          /\ Return
          /\ UNCHANGED <<formattedFiles, indexFileName, i>>
     ELSE /\ formattedFiles' = FormatFiles(prefix, arrayOfFileContents)
          /\ indexFileName' = IndexFileNameOf(arrayOfFileContents)
          /\ i' = 1
          /\ pc' = "posting"
          /\ UNCHANGED <<log, outcome>>
  /\ UNCHANGED <<world, command, deploymentType, prefix, ri,
                 arrayOfFileContents, inflight, results, io>>

\* the names of the pages this invocation has sent
SentNames == {io[k].name : k \in {j \in 1..Len(io) : io[j].op = "post"}}
NumPosts == Cardinality({j \in 1..Len(io) : io[j].op = "post"})

\* handleAPICalls up to its await: qb.addUpdateDbPage sends the POST
PostSend ==
  /\ pc = "posting"
  /\ i <= Len(formattedFiles)
  /\ CallSettled(inflight)
  /\ inflight' = inflight \cup {[call |-> NumPosts + 1, file |-> i]}
  /\ io' = Append(io,
       [Event("post", formattedFiles[i][1], formattedFiles[i][2],
              PostUrl(existingQbCliConfigs.realm, existingQbCliConfigs.dbid))
          EXCEPT !.data = RequestData(formattedFiles[i][1], formattedFiles[i][2],
                                      env.USERTOKEN, env.APP_TOKEN)])
  /\ UNCHANGED <<world, pc, command, deploymentType, prefix, ri,
                 arrayOfFileContents, formattedFiles, indexFileName, i,
                 results, log, outcome>>

\* the reply of the remote service: handleAPICalls prints the success or,
\* in its catch block, the error message, and returns to the loop
PostReply(ok) ==
  /\ pc = "posting"
  /\ \E c \in inflight :
       /\ inflight' = inflight \ {c}
       /\ results' = Append(results, [call |-> c.call, file |-> c.file, ok |-> ok])
       /\ IF ok
          THEN /\ remote' = AddReplaceDBPage(remote, formattedFiles[c.file][1],
                                             formattedFiles[c.file][2])
               /\ Say(Success("Deployed"))
          ELSE /\ remote' = RemoteAfterFailure(remote, SentNames)
               /\ Say(Error("TransportFailure"))
  /\ i' = i + 1
  /\ IF i + 1 > Len(formattedFiles)
     THEN /\ Return
          /\ manifest' = ManifestAfterDeploy(manifest, indexFileName)
          /\ store' = StoreAfterDeploy(store, existingQbCliConfigs.repositoryId,
                                       indexFileName)
     ELSE UNCHANGED <<pc, outcome, manifest, store>>
  /\ UNCHANGED <<disk, env, command, deploymentType, prefix,
                 ri, arrayOfFileContents, formattedFiles, indexFileName, io>>

-----------------------------------------------------------------------------
(* The other commands                                                      *)

\* deployqb init
CmdInit ==
  /\ pc = "start"
  /\ command' = "init"
  /\ LET repositoryId == env.REPOSITORY_ID
         e1 == [env EXCEPT
                  !.CUSTOM_PREFIX = IF Truthy(@) THEN @ ELSE "D",
                  !.CUSTOM_PREFIX_PROD = IF Truthy(@) THEN @ ELSE "P",
                  !.CUSTOM_PREFIX_FEATURE = IF Truthy(@) THEN @ ELSE "F"]
         template == qbcliTemplate(e1)
         data == InitData(template, manifest)
     IN /\ env' = e1
        /\ store' = saveFeaturePrefix(store, repositoryId, e1.CUSTOM_PREFIX_FEATURE)
        /\ \E written \in BOOLEAN :
             IF written
             THEN /\ manifest' = Some(data)
                  /\ io' = io \o <<Event("storeSet", repositoryId, "", ""),
                                   Event("manifestWrite", "", "", "")>>
                  /\ Say(Success("ManifestCreated"))
             ELSE /\ UNCHANGED manifest
                  /\ io' = Append(io, Event("storeSet", repositoryId, "", ""))
                  /\ Say(Error("WriteFailed"))
  /\ Return
  /\ UNCHANGED <<disk, remote, deployLocals>>

\* deployqb lprod | ldev | lfeat: getLaunchParameters reads qbCliJsonExists,
\* a constant local to run(), so the reference throws before anything else
CmdLaunch(type) ==
  /\ pc = "start"
  /\ command' = "launch"
  /\ deploymentType' = type
  /\ Throw("ReferenceError")
  /\ UNCHANGED <<world, prefix, ri, arrayOfFileContents, formattedFiles,
                 indexFileName, i, inflight, results, log, io>>

\* deployqb help
CmdHelp ==
  /\ pc = "start"
  /\ command' = "help"
  /\ log' = log \o <<Success("deployqb commands"), Plain("command list")>>
  /\ Return
  /\ UNCHANGED <<world, deployLocals, io>>

\* (a variant that writes a new record holding the prefix alone)
EditedRecordFresh(configs, newPrefix) ==
  [customPrefixFeature |-> newPrefix, launchFeatPageId |-> undefined]

\* the record efeatprefix writes back: the one it read, with the new
\* feature prefix
EditedRecord(configs, newPrefix) ==
  [configs EXCEPT !.customPrefixFeature = newPrefix]

\* deployqb edevprefix | eprodprefix | efeatprefix
CmdEditPrefix(which) ==
  /\ pc = "start"
  /\ command' = which
  /\ Return
  /\ UNCHANGED <<manifest, disk, remote, env, deployLocals>>
  /\ IF which \in {"edevprefix", "eprodprefix"}
     THEN /\ Say(Warning("EditManifestByHand"))
          /\ UNCHANGED <<store, io>>
     ELSE IF ~qbCliJsonExists
     THEN /\ Say(Error("NotAtRoot"))
          /\ UNCHANGED <<store, io>>
     ELSE LET repoId == existingQbCliConfigs.repositoryId
              configs == getConfiguration(store, repoId)
          IN IF configs = None
             THEN /\ Say(Error("NoDeveloperRecord"))
                  /\ UNCHANGED <<store, io>>
             ELSE \E newPrefix \in {"G", ""} :
                    /\ store' = [store EXCEPT ![repoId] =
                                   Some(EditedRecord(The(configs), newPrefix))]
                    /\ io' = io \o <<Event("input", "", newPrefix, ""),
                                     Event("storeSet", repoId, "", "")>>
                    /\ Say(Success("PrefixUpdated"))

\* deployqb genlinks
CmdGenerateLinks ==
  /\ pc = "start"
  /\ command' = "genlinks"
  /\ Return
  /\ UNCHANGED <<world, deployLocals, io>>
  /\ LET repoId == env.REPOSITORY_ID
         dump == Plain("environment")
     IN IF ~qbCliJsonExists
        THEN log' = log \o <<dump, Error("NotAtRoot")>>
        ELSE IF getConfiguration(store, repoId) = None
        THEN log' = log \o <<dump, Error("NoDeveloperRecord")>>
        ELSE log' = log \o
               <<dump,
                 Plain(generateLink(env.LAUNCH_DEV_PAGE_ID, env.REALM,
                                    env.CUSTOM_PREFIX, env.CUSTOM_PREFIX_PRODUCTION,
                                    env.DEV_AND_PROD_QUICKBASE_APPLICATIONS, undefined)),
                 Plain(generateLink(env.LAUNCH_PROD_PAGE_ID, env.QB_REALM,
                                    env.CUSTOM_PREFIX, env.CUSTOM_PREFIX_PRODUCTION,
                                    undefined, undefined)),
                 Plain(generateLink(env.LAUNCH_FEAT_PAGE_ID, env.QB_REALM,
                                    env.CUSTOM_PREFIX, env.CUSTOM_PREFIX_PRODUCTION,
                                    undefined, env.CUSTOM_PREFIX_FEATURE))>>

-----------------------------------------------------------------------------

Next ==
  \/ CmdInit
  \/ \E type \in DeploymentTypes : CmdDeploy(type)
  \/ LoadStep
  \/ LoadFinish
  \/ PostSend
  \/ \E ok \in BOOLEAN : PostReply(ok)
  \/ \E type \in DeploymentTypes : CmdLaunch(type)
  \/ CmdHelp
  \/ \E which \in {"edevprefix", "eprodprefix", "efeatprefix"} : CmdEditPrefix(which)
  \/ CmdGenerateLinks

Spec == Init /\ [][Next]_vars

-----------------------------------------------------------------------------
(* A second invocation in the world the first one left                     *)

\* the record a following invocation starts from: the type of the deploy
\* that has just succeeded, its index page and the remote workspace it left
Previous ==
  [Event("previous", deploymentType, remote, "") EXCEPT !.data = <<indexFileName>>]

\* the process has exited after a deploy whose calls all succeeded, and the
\* tool is invoked again: run() starts afresh on the persisted world
Rerun ==
  /\ pc = "done"
  /\ command = "deploy"
  /\ outcome = "returned"
  /\ Len(results) >= 1
  /\ Len(results) = Len(formattedFiles)
  /\ \A k \in 1..Len(results) : results[k].ok
  /\ pc' = "start"
  /\ command' = "none"
  /\ deploymentType' = undefined
  /\ prefix' = undefined
  /\ ri' = 0
  /\ arrayOfFileContents' = <<>>
  /\ formattedFiles' = <<>>
  /\ indexFileName' = undefined
  /\ i' = 0
  /\ inflight' = {}
  /\ results' = <<>>
  /\ log' = <<>>
  /\ io' = <<Previous>>
  /\ outcome' = "running"
  /\ UNCHANGED world

NextTwice == Next \/ Rerun

SpecTwice == Init /\ [][NextTwice]_vars

-----------------------------------------------------------------------------
(* init as src/unnamed/part_000 has it: the answers come from prompts and  *)
(* the credentials go to the keychain                                      *)

\* what the user may answer to the prompts of userInput
PromptInputs ==
  {[repositoryId |-> repo,
    usertoken |-> "ut",
    apptoken |-> at,
    devUsertoken |-> "utd",
    devApptoken |-> "atd",
    devAndProdQuickBaseApplications |-> dp,
    customPrefix |-> IF given THEN "X" ELSE "",
    customPrefixProduction |-> IF given THEN "Y" ELSE "",
    customPrefixFeature |-> IF given THEN "Z" ELSE ""] :
     repo \in RepoIds, at \in {"", "at"}, dp \in {"no", "yes"}, given \in BOOLEAN}

\* the most keychain writes one init makes
MaxSecureTokens == 4

\* the setSecureToken calls of init, in order: <<key, token>>
SecureTokenCalls(input) ==
  <<<<input.repositoryId \o "ut", input.usertoken>>,
    <<input.repositoryId \o "at", input.apptoken>>>>
  \o (IF input.devAndProdQuickBaseApplications = "yes"
      THEN <<<<input.repositoryId \o "utd", input.devUsertoken>>,
             <<input.repositoryId \o "atd", input.devApptoken>>>>
      ELSE <<>>)

\* (a variant of setSecureToken without the try block)
setSecureTokenUncaught(rejects) == rejects

\* whether setSecureToken throws when keytar.setPassword rejects: the catch
\* block prints two errors and returns
setSecureTokenThrows(rejects) == FALSE

\* what setSecureToken prints
setSecureTokenAlerts(rejects) ==
  IF rejects THEN <<Error("SecureStoreFailed"), Error("keytar error")>> ELSE <<>>

\* the prefixes init falls back to
DefaultedInput(input) ==
  [input EXCEPT !.customPrefix = IF Truthy(@) THEN @ ELSE "D",
                !.customPrefixProduction = IF Truthy(@) THEN @ ELSE "P",
                !.customPrefixFeature = IF Truthy(@) THEN @ ELSE "F"]

CmdInitPrompted ==
  /\ pc = "start"
  /\ command' = "init"
  /\ \E input \in PromptInputs, rejected \in SUBSET (1..MaxSecureTokens),
        written \in BOOLEAN :
       LET calls == SecureTokenCalls(input)
           thrown == {k \in rejected : setSecureTokenThrows(TRUE)}
           made == IF thrown = {} THEN Len(calls)
                   ELSE CHOOSE k \in thrown : \A j \in thrown : k <= j
           keytar == [k \in 1..made |->
                        Event(IF k \in rejected THEN "setPasswordRejected"
                              ELSE "setPassword", calls[k][1], calls[k][2], "")]
           alerts == setSecureTokenAlerts(1 \in rejected)
                       \o setSecureTokenAlerts(2 \in rejected)
                       \o setSecureTokenAlerts(3 \in rejected)
                       \o setSecureTokenAlerts(4 \in rejected)
           input1 == DefaultedInput(input)
           data == InitData(qbcliTemplate(env), manifest)
           asked == <<Event("input", "", input, "")>>
       IN /\ rejected \subseteq 1..Len(calls)
          /\ IF thrown # {}
             THEN /\ Throw("KeytarError")
                  /\ io' = io \o asked \o keytar
                  /\ UNCHANGED <<manifest, store, log>>
             ELSE /\ Return
                  /\ store' = saveFeaturePrefix(store, input.repositoryId,
                                                input1.customPrefixFeature)
                  /\ IF written
                     THEN /\ manifest' = Some(data)
                          /\ io' = io \o asked \o keytar
                                     \o <<Event("storeSet", input.repositoryId, "", ""),
                                          Event("manifestWrite", "", "", "")>>
                          /\ log' = log \o alerts \o <<Success("ManifestCreated")>>
                     ELSE /\ UNCHANGED manifest
                          /\ io' = io \o asked \o keytar
                                     \o <<Event("storeSet", input.repositoryId, "", "")>>
                          /\ log' = log \o alerts \o <<Error("WriteFailed")>>
  /\ UNCHANGED <<disk, remote, env, deployLocals>>

InitPrompted ==
  /\ ConfigWorlds
  /\ remote = <<>>
  /\ InitLocals

NextPrompted == CmdInitPrompted

SpecPrompted == InitPrompted /\ [][NextPrompted]_vars

-----------------------------------------------------------------------------
(* Observations used by the properties                                     *)

filesConf == IF qbCliJsonExists THEN existingQbCliConfigs.filesConf ELSE <<>>
IsPost(e) == e.op = "post"
IsRead(e) == e.op = "read"
IsPrompt(e) == e.op = "prompt"
Posts == SelectSeq(io, IsPost)
PostedNames == [k \in 1..Len(Posts) |-> Posts[k].name]
Last(s) == s[Len(s)]
IsPrefixOf(s, t) == Len(s) <= Len(t) /\ s = SubSeq(t, 1, Len(s))

\* the per-developer record under the manifest's repositoryId
ManifestRecord == getConfiguration(store, existingQbCliConfigs.repositoryId)

\* the entries whose source exists, in manifest order
SourceExists(e) == fileFolderExists(disk, e.filename)
Survivors == SelectSeq(filesConf, SourceExists)
NoSource == \A k \in 1..Len(filesConf) : ~SourceExists(filesConf[k])

\* the user declined the confirmation of a dev or prod deploy
Declined == \E k \in 1..Len(io) : IsPrompt(io[k]) /\ io[k].body # "yes"

\* the prefix the requested type resolves to
ResolvedPrefix ==
  IF deploymentType = "prod" THEN existingQbCliConfigs.prodPrefix
  ELSE IF deploymentType = "dev" THEN existingQbCliConfigs.devPrefix
  ELSE The(ManifestRecord).customPrefixFeature

\* the deploy has come to resolve its prefix
ReachedResolution ==
  /\ command = "deploy"
  /\ qbCliJsonExists
  /\ Len(filesConf) >= 1
  /\ ManifestRecord # None
  /\ ~Declined

\* the command ended on an error message; an exception that leaves run()
\* is printed by the runtime and counts as one
FailedWithMessage ==
  \/ log # <<>> /\ Last(log).level = "error"
  \/ outcome \notin {"running", "returned"}

EndsWithEmptyDeployment ==
  /\ pc = "done"
  /\ log # <<>>
  /\ Last(log) \in {Error("NoFilesListed"), Error("EmptyBatch")}

-----------------------------------------------------------------------------
(* Properties                                                              *)

\* C1: stop on first failure: once the upsert call for the k-th file has
\* failed, no further call is issued, so the invocation has made exactly k
\* POSTs.
C1_StopOnFirstFailure ==
  \A k \in 1..Len(results) : ~results[k].ok => Len(Posts) = results[k].call

\* C2: during a deploy the upsert calls are issued one at a time in manifest
\* order: at most one call is in flight, a call is started only when every
\* earlier call has completed, and the page names sent are, in order, those
\* of the entries whose source exists (all of them once the deploy returns
\* from the loop).
C2_SequentialInOrder ==
  command = "deploy" =>
    /\ Cardinality(inflight) <= 1
    /\ Len(results) + Cardinality(inflight) = Len(Posts)
    /\ \A k \in 1..Len(results) : results[k].call = k
    /\ IsPrefixOf(PostedNames,
                  [k \in 1..Len(Survivors) |-> Str(prefix) \o Survivors[k].filename])
    /\ (pc = "done" /\ Len(Posts) > 0) => Len(Posts) = Len(Survivors)

C2_Witness ==
  /\ command = "deploy"
  /\ pc = "done"
  /\ Len(Posts) >= 2
  /\ Len(results) = Len(Posts)

\* C3 (as stated): a deploy whose manifest file list is empty, or whose
\* every entry has a missing source, ends with the EmptyDeployment error and
\* issues zero network calls.
C3_EmptyDeployment ==
  (command = "deploy" /\ qbCliJsonExists /\ NoSource) =>
    /\ Len(Posts) = 0
    /\ pc = "done" => EndsWithEmptyDeployment

\* C3 (amended): a deploy whose manifest file list is empty, or whose every
\* entry has a missing source, issues zero network calls; it ends with the
\* EmptyDeployment error when the list is empty, and when every source is
\* missing and the deploy gets as far as loading (the per-developer record
\* exists, a dev or prod deploy is confirmed, the resolved prefix is not
\* empty).
C3_EmptyDeploymentAmended ==
  (command = "deploy" /\ qbCliJsonExists /\ NoSource) =>
    /\ Len(Posts) = 0
    /\ pc # "posting"
    /\ (pc = "done" /\ (Len(filesConf) = 0
                        \/ (ReachedResolution /\ Truthy(ResolvedPrefix))))
         => EndsWithEmptyDeployment

C3_Witness ==
  /\ command = "deploy"
  /\ Len(filesConf) >= 2
  /\ NoSource
  /\ pc = "done"
  /\ log # <<>>
  /\ Last(log) = Error("EmptyBatch")

\* C4: deploy, launch, edit-feature-prefix and generate-links, run when the
\* per-developer store holds no record under the manifest's repositoryId,
\* fail with an error message, with no file read, no network call, no link
\* opened and no store written.
C4_NoRecordFailsEarly ==
  (/\ pc = "done"
   /\ command \in {"deploy", "launch", "efeatprefix", "genlinks"}
   /\ qbCliJsonExists
   /\ ManifestRecord = None) =>
    /\ FailedWithMessage
    /\ \A k \in 1..Len(io) : io[k].op \notin {"read", "post", "open", "storeSet"}

\* C5: no prepared file has zero-length content and no POST carries an
\* empty page body.
C5_NoEmptyContent ==
  /\ \A k \in 1..Len(arrayOfFileContents) : arrayOfFileContents[k][2] # ""
  /\ \A k \in 1..Len(Posts) : Posts[k].body # ""

\* C6: a deploy whose resolved prefix is empty or unset fails with
\* MissingPrefix and issues zero POSTs, and no POST carries a page name
\* equal to the bare filename of a manifest entry.
C6_MissingPrefix ==
  /\ (ReachedResolution /\ ~Truthy(ResolvedPrefix)) =>
       (pc = "done" /\ outcome = "MissingPrefix" /\ Len(Posts) = 0)
  /\ \A k \in 1..Len(Posts), j \in 1..Len(filesConf) :
       Posts[k].name # filesConf[j].filename

C6_Witness ==
  /\ ReachedResolution
  /\ ~Truthy(ResolvedPrefix)
  /\ outcome = "MissingPrefix"

\* C7: at most one prepared file of a batch is marked as the index file,
\* and the index file name deploy records is that of the first entry in
\* manifest order that claims it.
C7_AtMostOneIndex ==
  /\ Cardinality({k \in 1..Len(arrayOfFileContents) : arrayOfFileContents[k][3]}) <= 1
  /\ (pc = "posting" /\ \E k \in 1..Len(Survivors) : Survivors[k].isIndexFile = "yes") =>
       LET first == CHOOSE k \in 1..Len(Survivors) :
                      /\ Survivors[k].isIndexFile = "yes"
                      /\ \A j \in 1..(k - 1) : Survivors[j].isIndexFile # "yes"
       IN indexFileName = Survivors[first].filename

\* C8: when some but not all entries have a missing source, loading does
\* not fail, a warning is reported for each missing entry, and the others
\* are prepared in manifest order.
C8_MissingSkippedWithWarning ==
  (/\ command = "deploy"
   /\ pc = "posting"
   /\ \E k \in 1..Len(filesConf) : ~SourceExists(filesConf[k])) =>
    /\ Cardinality({k \in 1..Len(log) : log[k].level = "warning"})
         = Cardinality({k \in 1..Len(filesConf) : ~SourceExists(filesConf[k])})
    /\ [k \in 1..Len(arrayOfFileContents) |-> arrayOfFileContents[k][1]]
         = [k \in 1..Len(Survivors) |-> Survivors[k].filename]

\* C9: within a deploy every file read precedes the first network call: no
\* read event follows a POST event.
C9_ReadsBeforePosts ==
  \A j, k \in 1..Len(io) : (j < k /\ IsPost(io[j])) => ~IsRead(io[k])

C9_Witness ==
  /\ pc = "done"
  /\ Len(Posts) >= 2
  /\ Len(SelectSeq(io, IsRead)) >= 2

\* C10: no rollback: a page whose upsert has succeeded keeps the deployed
\* content in the remote workspace for the rest of the invocation, whatever
\* the outcome of any later call.
C10_NoRollback ==
  command = "deploy" =>
    \A k \in 1..Len(results) :
      results[k].ok =>
        /\ formattedFiles[results[k].file][1] \in DOMAIN remote
        /\ remote[formattedFiles[results[k].file][1]] = formattedFiles[results[k].file][2]

C10_Witness ==
  \E j, k \in 1..Len(results) : j < k /\ results[j].ok /\ ~results[k].ok

\* every manifest entry has a source file with non-empty content
AllExistNonEmpty ==
  \A k \in 1..Len(filesConf) :
    /\ SourceExists(filesConf[k])
    /\ ~readRejects(disk, filesConf[k].filename)
    /\ getFileContents(disk, filesConf[k].filename) # ""

\* the deploy has left the loop and every call it made succeeded
AllCallsSucceeded ==
  /\ command = "deploy"
  /\ pc = "done"
  /\ Len(results) = Len(formattedFiles)
  /\ Len(results) >= 1
  /\ \A k \in 1..Len(results) : results[k].ok

\* C11: a deploy in which every manifest entry's source exists with
\* non-empty content and every upsert succeeds has issued exactly one POST
\* per entry, to https://{realm}/db/{targetId}, whose page name is the
\* resolved prefix followed by the filename and whose body is the file's
\* content.
C11_OnePostPerFile ==
  (AllCallsSucceeded /\ AllExistNonEmpty) =>
    /\ Len(Posts) = Len(filesConf)
    /\ \A k \in 1..Len(Posts) :
         /\ Posts[k].url = "https://" \o Str(existingQbCliConfigs.realm)
                             \o "/db/" \o Str(existingQbCliConfigs.dbid)
         /\ Posts[k].name = Str(ResolvedPrefix) \o filesConf[k].filename
         /\ Posts[k].body = getFileContents(disk, filesConf[k].filename)

\* C12: the prefix of a deploy is a function of the requested type and the
\* three configured prefixes: prod gives the manifest's prodPrefix, dev its
\* devPrefix, feat the developer's feature prefix; the page names sent are
\* that prefix followed by the filenames, so deploys with identical inputs
\* send identical page names.
C12_PrefixIsFunction ==
  ReachedResolution =>
    /\ prefix = ResolvedPrefix
    /\ \A k \in 1..Len(Posts) :
         Posts[k].name = Str(ResolvedPrefix) \o Survivors[k].filename

C12_Witness ==
  /\ ReachedResolution
  /\ deploymentType = "prod"
  /\ existingQbCliConfigs.prodPrefix # existingQbCliConfigs.devPrefix
  /\ Len(Posts) >= 1

\* an init that wrote the manifest
InitWrote ==
  /\ command = "init"
  /\ \E k \in 1..Len(io) : io[k].op = "manifestWrite"

\* C13: an init run while a manifest exists writes a manifest whose
\* urlQueryString and file entries are those of the manifest it found,
\* whatever the template holds.
C13_InitRetains ==
  [][(pc = "start" /\ qbCliJsonExists /\ InitWrote')
       => /\ manifest' # None
          /\ The(manifest').urlQueryString = existingQbCliConfigs.urlQueryString
          /\ The(manifest').filesConf = existingQbCliConfigs.filesConf]_vars

C13_Witness ==
  /\ InitWrote
  /\ existingQbCliConfigs.urlQueryString = "x=1"
  /\ existingQbCliConfigs.filesConf = EntriesOf(<<"yes">>)
  /\ existingQbCliConfigs.repositoryId = "r2"

\* C14: the repositoryId of the manifest is immutable: once a manifest
\* exists no step of any command, a re-run of init under another configured
\* repository identifier included, changes the repositoryId it stores.
C14_RepositoryIdImmutable ==
  [][qbCliJsonExists
       => /\ manifest' # None
          /\ The(manifest').repositoryId = existingQbCliConfigs.repositoryId]_vars

\* the environment configures none of the prefixes
NoPrefixConfigured ==
  /\ ~Truthy(env.CUSTOM_PREFIX)
  /\ ~Truthy(env.CUSTOM_PREFIX_PROD)
  /\ ~Truthy(env.CUSTOM_PREFIX_PRODUCTION)
  /\ ~Truthy(env.CUSTOM_PREFIX_FEATURE)

\* C15: no init persists an unset or empty prefix: the manifest an init
\* writes has a non-empty devPrefix and prodPrefix and the developer's
\* record a non-empty feature prefix, and when no prefix was configured
\* they are "D", "P" and "F".
C15_DefaultPrefixes ==
  [][(pc = "start" /\ InitWrote')
       => LET m == The(manifest')
              rec == The(getConfiguration(store', m.repositoryId))
          IN /\ Truthy(m.devPrefix)
             /\ Truthy(m.prodPrefix)
             /\ Truthy(rec.customPrefixFeature)
             /\ NoPrefixConfigured =>
                  /\ m.devPrefix = "D"
                  /\ m.prodPrefix = "P"
                  /\ rec.customPrefixFeature = "F"]_vars

\* the messages of the log other than plain console output
IsAlert(m) == m.level # "log"
Alerts == SelectSeq(log, IsAlert)

\* C16: deploy, launch, edit-feature-prefix and generate-links, invoked
\* where no manifest exists, fail with NotInitialized: the command returns
\* having printed that one error message, with no file read, no network
\* call, no store write, no link opened and no exception leaving run().
C16_NotInitialized ==
  (command \in {"deploy", "launch", "efeatprefix", "genlinks"} /\ ~qbCliJsonExists)
    => /\ pc = "done"
       /\ outcome = "returned"
       /\ Alerts = <<Error("NotAtRoot")>>
       /\ io = <<>>
       /\ remote = <<>>

\* a success message of the deploy has been printed
SuccessPrinted == \E k \in 1..Len(log) : log[k].level = "success"

\* some upsert call of the deploy has failed
SomeCallFailed == \E k \in 1..Len(results) : ~results[k].ok

\* C17: a deploy in which an upsert fails prints exactly one user-facing
\* message, the failure, and no success message before or after it; a
\* success message is printed only when every file of the batch has been
\* upserted.
C17_OneMessage ==
  command = "deploy" =>
    /\ SomeCallFailed =>
         /\ ~SuccessPrinted
         /\ pc = "done" => Len(Alerts) = 1
    /\ SuccessPrinted =>
         /\ Len(results) = Len(formattedFiles)
         /\ \A k \in 1..Len(results) : results[k].ok

\* C18: the persisted manifest is written only by init and the prefix-edit
\* commands and is never deleted: every step of a deploy (successful or
\* failed), of launch, of generate-links and of help leaves it unchanged.
C18_ManifestWriters ==
  [][/\ manifest' # manifest =>
          command' \in {"init", "edevprefix", "eprodprefix", "efeatprefix"}
     /\ qbCliJsonExists => manifest' # None]_vars

C18_Witness ==
  /\ command = "deploy"
  /\ pc = "done"
  /\ qbCliJsonExists
  /\ SomeCallFailed
  /\ \E k \in 1..Len(results) : results[k].ok

\* the answers the prompted init received, and its keychain writes
IsInput(e) == e.op = "input"
IsRejected(e) == e.op = "setPasswordRejected"
Rejections == SelectSeq(io, IsRejected)

\* C19: during init a failed write to the secure credential store is
\* logged and does not prevent the manifest from being created: init goes
\* on to write the developer's record and the manifest, exactly those it
\* writes when the credential store succeeds.
C19_CredentialFailureNonBlocking ==
  [][(pc = "start" /\ command' = "init" /\ Rejections' # <<>>)
       => LET input == DefaultedInput(SelectSeq(io', IsInput)[1].body)
              saved == Last(log') = Success("ManifestCreated")
          IN /\ outcome' = "returned"
             /\ Len(SelectSeq(log', LAMBDA m : m = Error("SecureStoreFailed")))
                  = Len(Rejections')
             /\ Last(log') \in {Success("ManifestCreated"), Error("WriteFailed")}
             /\ store' = saveFeaturePrefix(store, input.repositoryId,
                                           input.customPrefixFeature)
             /\ manifest' = IF saved
                            THEN Some(InitData(qbcliTemplate(env), manifest))
                            ELSE manifest]_vars

C19_Witness ==
  /\ command = "init"
  /\ Len(Rejections) >= 2
  /\ log # <<>>
  /\ Last(log) = Success("ManifestCreated")
  /\ qbCliJsonExists

\* the texts of the elements of a request that carry the given tag
ElementsOf(e, tag) ==
  {e.data[k].text : k \in {j \in 1..Len(e.data) : e.data[j].tag = tag}}

\* C20: every upsert request carries the primary credential, and carries a
\* secondary-credential element exactly when a secondary credential is
\* configured, that is, non-empty.
C20_Credentials ==
  \A k \in 1..Len(Posts) :
    /\ ElementsOf(Posts[k], "usertoken") = {env.USERTOKEN}
    /\ ElementsOf(Posts[k], "apptoken")
         = IF Truthy(env.APP_TOKEN) THEN {env.APP_TOKEN} ELSE {}

C20_Witness ==
  /\ Len(Posts) >= 1
  /\ env.APP_TOKEN = "at"

\* the link form of the contract and the inputs it is built from
ServiceDomain == "quickbase.com"

LinkInputs ==
  [realm : {"acme"}, targetId : {"abc123", "dev456"}, pageId : {"7", "8", "9"},
   queryString : {"", "x=1"}]

LinkForm(x) ==
  "https://" \o x.realm \o "." \o ServiceDomain \o "/db/" \o x.targetId
    \o "?a=dbpage&pageID=" \o x.pageId
    \o (IF x.queryString # "" THEN "&" \o x.queryString ELSE "")

\* parsing a link: the inputs whose link it is
ParseLink(url) == CHOOSE x \in LinkInputs : LinkForm(x) = url

\* generate-links has printed its three links
LinksPrinted == command = "genlinks" /\ Len(log) = 4
PrintedLinks == {log[k].msg : k \in 2..4}

\* the environment configures the launch pages and the realm of the links
LinksConfigured ==
  /\ Truthy(env.LAUNCH_DEV_PAGE_ID)
  /\ Truthy(env.LAUNCH_PROD_PAGE_ID)
  /\ Truthy(env.LAUNCH_FEAT_PAGE_ID)
  /\ Truthy(env.QB_REALM)

\* C21: link construction round-trips: every link the tool produces is
\* https://{realm}.{service-domain}/db/{targetId}?a=dbpage&pageID={pageId},
\* followed by &{queryString} exactly when the query string is non-empty,
\* for the inputs it was built from, and parsing it recovers those inputs.
C21_LinkRoundTrip ==
  (LinksPrinted /\ LinksConfigured) =>
    \A url \in PrintedLinks :
      \E x \in LinkInputs :
        /\ url = LinkForm(x)
        /\ ParseLink(url) = x

\* what may precede the pageID parameter of a printed link
LinkHeads ==
  {"https://" \o x.realm \o "." \o ServiceDomain \o "/db/" \o x.targetId \o "?a=dbpage&" :
     x \in LinkInputs}
  \cup {Str(r) \o "/db/main?a=dbpage&" : r \in {env.REALM, env.QB_REALM}}

\* C22: generate-links, run with a manifest and the per-developer record
\* present, prints links whose pageID parameter is the configured launch
\* page id of each environment, and when urlQueryString is empty each link
\* ends right after the pageID value.
C22_GenerateLinks ==
  (/\ command = "genlinks"
   /\ qbCliJsonExists
   /\ ManifestRecord # None
   /\ LinksConfigured
   /\ existingQbCliConfigs.urlQueryString = "")
    => /\ LinksPrinted
       /\ \E head \in LinkHeads : log[2].msg = head \o "pageID=" \o env.LAUNCH_DEV_PAGE_ID
       /\ \E head \in LinkHeads : log[3].msg = head \o "pageID=" \o env.LAUNCH_PROD_PAGE_ID
       /\ \E head \in LinkHeads : log[4].msg = head \o "pageID=" \o env.LAUNCH_FEAT_PAGE_ID

\* the number of configurationFile.set calls made so far
IsStoreSet(e) == e.op = "storeSet"
StoreWrites == Len(SelectSeq(io, IsStoreSet))

\* an edit-feature-prefix that passes its checks: the manifest and the
\* developer's record under its repositoryId exist
EditChecksPass == qbCliJsonExists /\ ManifestRecord # None

\* C23: the per-developer store is written exactly once by an init and
\* exactly once by an edit-feature-prefix that passes its checks, and not at
\* all by any step of deploy, launch, generate-links, help, edit-dev-prefix,
\* edit-prod-prefix or of an edit-feature-prefix that fails its checks; the
\* store does not change without such a write.
C23_StoreWrites ==
  [][LET writes == StoreWrites' - StoreWrites
     IN /\ store' # store => writes = 1
        /\ writes = IF pc = "start" /\ command' = "init" THEN 1
                    ELSE IF pc = "start" /\ command' = "efeatprefix" /\ EditChecksPass
                    THEN 1
                    ELSE 0]_vars

C23_Witness ==
  /\ command = "efeatprefix"
  /\ StoreWrites = 1
  /\ The(ManifestRecord).customPrefixFeature = "G"

\* this invocation follows a deploy that succeeded
Follows == io # <<>> /\ io[1].op = "previous"

\* C24: deploy is idempotent on the remote workspace: a deploy of the same
\* type as the deploy that has just succeeded, on the same manifest,
\* prefixes and files, whose calls all succeed, leaves the remote pages and
\* their contents as the first deploy left them.
C24_DeployIdempotent ==
  (Follows /\ AllCallsSucceeded /\ deploymentType = io[1].name)
    => remote = io[1].body

C24_Witness ==
  /\ Follows
  /\ AllCallsSucceeded
  /\ deploymentType = io[1].name
  /\ Len(Posts) >= 2
  /\ Cardinality(DOMAIN remote) >= 2

\* C25: deploy and launch agree on the target: for every deployment type
\* and every manifest, manifests with separate dev and prod applications
\* included, every POST of a deploy of that type goes to the application a
\* launch of that type opens.
C25_SameTarget ==
  command = "deploy" =>
    \A k \in 1..Len(Posts) :
      Posts[k].url = PostUrl(existingQbCliConfigs.realm,
                             launchDbid(existingQbCliConfigs, deploymentType))

\* a link has been opened in the browser
IsOpen(e) == e.op = "open"
LinkOpened == \E k \in 1..Len(io) : IsOpen(io[k])

\* C26: after a deploy of some type that succeeded for a batch with an
\* index file, a following launch of that type finds the launch page id and
\* opens a link: it does not end in an error.
C26_LaunchAfterDeploy ==
  (/\ Follows
   /\ io[1].data[1] # undefined
   /\ command = "launch"
   /\ deploymentType = io[1].name
   /\ pc = "done")
    => /\ outcome = "returned"
       /\ LinkOpened
       /\ ~FailedWithMessage

\* the deploy has asked for a confirmation
Asked == \E k \in 1..Len(io) : IsPrompt(io[k])

\* C27: a production or development deploy whose confirmation answer is
\* anything other than 'yes' ends with no file read, no network call and no
\* store write; a feature deploy never asks for a confirmation.
C27_Confirmation ==
  command = "deploy" =>
    /\ Declined =>
         /\ pc = "done"
         /\ \A k \in 1..Len(io) : IsPrompt(io[k])
         /\ arrayOfFileContents = <<>>
         /\ remote = <<>>
         /\ StoreWrites = 0
    /\ deploymentType = "feat" => ~Asked

C27_Witness ==
  /\ command = "deploy"
  /\ deploymentType = "prod"
  /\ Declined
  /\ io[1].body = "Yes"
  /\ SourceExists(filesConf[1])

\* an edit-feature-prefix that succeeded
PrefixEdited ==
  /\ command = "efeatprefix"
  /\ log # <<>>
  /\ Last(log) = Success("PrefixUpdated")

\* C28: a successful edit-feature-prefix changes, in the per-developer
\* store, only the feature prefix of the record under the manifest's
\* repositoryId, which becomes the prefix the user entered: every other
\* field of that record and every record under another repositoryId stay
\* as they were.
C28_EditFeaturePrefixFrame ==
  [][(pc = "start" /\ PrefixEdited')
       => LET repoId == existingQbCliConfigs.repositoryId
              entered == SelectSeq(io', IsInput)[1].body
          IN /\ DOMAIN store' = DOMAIN store
             /\ \A r \in DOMAIN store : r # repoId => store'[r] = store[r]
             /\ store'[repoId] # None
             /\ The(store'[repoId]).customPrefixFeature = entered
             /\ The(store'[repoId]).launchFeatPageId
                  = The(store[repoId]).launchFeatPageId
             /\ DOMAIN The(store'[repoId]) = DOMAIN The(store[repoId])]_vars

C28_Witness ==
  /\ PrefixEdited
  /\ The(ManifestRecord).customPrefixFeature = "G"
  /\ The(ManifestRecord).launchFeatPageId = "9"
  /\ store["r2"] # None

====
